---- MODULE Spec2Model ----
(***************************************************************************)
(* Model of ddm_web.py: the Streamlit drift-diffusion simulator.           *)
(*                                                                         *)
(* Real numbers are fixed-point integers in units of 1/Scale: a slider     *)
(* value 1.5 is 1500, dt = 0.05 is 50, evidence 2.025 is 2025, time 1.35   *)
(* seconds is 1350.  A product of two such numbers is divided by Scale.    *)
(* All slider values and draws of the model are chosen so that every       *)
(* division is exact.                                                      *)
(*                                                                         *)
(* One run of the script (main) is: setup_params (read the sliders, create *)
(* the session state when missing), the two buttons, then the loop         *)
(* "update_simulation; pyplot; sleep; break tests".  Streamlit starts a    *)
(* new run on every widget interaction, and stops the current run at its   *)
(* next st.* call (st.success at line 109, pyplot at line 156), so a run   *)
(* can end between update_simulation and the break tests.  pc is the       *)
(* position of the current run: "update" (about to call update_simulation),*)
(* "check" (update_simulation returned, break tests not yet done), "idle"  *)
(* (the loop has exited normally and the script has ended).                *)
(***************************************************************************)
EXTENDS Integers, Sequences, FiniteSets, TLC

Scale == 1000

\* 'dt': 0.05 (line 27)
dt == 50

\* for _ in range(5) (line 95)
BatchSize == 5

\* Longest trial explored, in steps: under Spec and under SpecZero.
MaxSteps == 10
MaxStepsZero == 30

\* Slider positions explored; every one lies in the slider's range.
DriftValues == {-1500, 1500}
ThresholdValues == {500, 2000}
BiasValues == {0, 1000}
NoiseSdValues == {1000, 2000}

\* Values of sqrt(dt) * N(0,1) explored: a draw of the normal generator.
Draws == {-575, 425}

SliderValues ==
  [drift_rate |-> DriftValues, threshold |-> ThresholdValues,
   bias |-> BiasValues, noise_sd |-> NoiseSdValues]

SliderNames == {"drift_rate", "threshold", "bias", "noise_sd"}

\* Slider defaults: 1.5, 2.0, 0.0, 1.0 (lines 19-27).
DefaultParams ==
  [drift_rate |-> 1500, threshold |-> 2000, bias |-> 0, noise_sd |-> 1000,
   dt |-> dt]

Abs(x) == IF x < 0 THEN -x ELSE x

VARIABLES
  params,            \* self.params of the current run (the slider values)
  session_state,     \* st.session_state
  decision_boundary, \* the st.success message of the current run, or "None"
  pc,                \* position of the current run of main
  steps,             \* history: steps taken since the trial's initial state
  trial_params       \* history: <<params of the last step of the trial>>

vars == <<params, session_state, decision_boundary, pc, steps, trial_params>>

\* Lines 61-66 and 143-148: the single-sample state of a new trial.
InitialState(p) ==
  [time |-> 0, evidence |-> p.bias, evidence_history |-> <<p.bias>>,
   time_history |-> <<0>>, decision_made |-> FALSE, running |-> FALSE]

\* DecisionBoundary with the tie on +threshold sent to the other branch.
DecisionBoundaryStrict(new_evidence, threshold) ==
  IF new_evidence > threshold THEN "Upper" ELSE "Lower"

\* Line 108.
DecisionBoundary(new_evidence, threshold) ==
  IF new_evidence >= threshold THEN "Upper" ELSE "Lower"

\* Line 106.
Crossed(new_evidence, threshold) == Abs(new_evidence) >= threshold

\* Step that appends the time before advancing it.
StepStaleTime(s, p, g) ==
  LET noise == (p.noise_sd * g) \div Scale
      new_evidence == s.evidence + ((p.drift_rate * p.dt) \div Scale + noise)
      new_time == s.time + p.dt
  IN [s EXCEPT !.time = new_time,
               !.evidence = new_evidence,
               !.evidence_history = Append(s.evidence_history, new_evidence),
               !.time_history = Append(s.time_history, s.time),
               !.decision_made =
                 IF Crossed(new_evidence, p.threshold) THEN TRUE
                 ELSE s.decision_made]

\* Lines 96-107: one iteration of the for loop, g the value of
\* sqrt(dt) * normal().
Step(s, p, g) ==
  LET noise == (p.noise_sd * g) \div Scale
      new_evidence == s.evidence + ((p.drift_rate * p.dt) \div Scale + noise)
      new_time == s.time + p.dt
  IN [s EXCEPT !.time = new_time,
               !.evidence = new_evidence,
               !.evidence_history = Append(s.evidence_history, new_evidence),
               !.time_history = Append(s.time_history, new_time),
               !.decision_made =
                 IF Crossed(new_evidence, p.threshold) THEN TRUE
                 ELSE s.decision_made]

\* The for loop without its break.
RECURSIVE BatchNoBreak(_, _, _, _)
BatchNoBreak(s, p, draws, i) ==
  IF i > BatchSize THEN s
  ELSE BatchNoBreak(Step(s, p, draws[i]), p, draws, i + 1)

\* Lines 95-110: the for loop from iteration i on, with its break.
RECURSIVE Batch(_, _, _, _)
Batch(s, p, draws, i) ==
  IF i > BatchSize THEN s
  ELSE LET s1 == Step(s, p, draws[i])
       IN IF s1.decision_made THEN s1 ELSE Batch(s1, p, draws, i + 1)

\* Number of iterations the for loop executes from iteration i on.
RECURSIVE BatchSteps(_, _, _, _)
BatchSteps(s, p, draws, i) ==
  IF i > BatchSize THEN 0
  ELSE LET s1 == Step(s, p, draws[i])
       IN IF s1.decision_made THEN 1 ELSE 1 + BatchSteps(s1, p, draws, i + 1)

\* WillStep without the test of decision_made.
WillStepIgnoringDecision(s) == s.running

\* Line 93.
WillStep(s) == ~s.decision_made /\ s.running

\* State after the first run of the script has passed the buttons: the
\* sliders return their defaults, 'time' is not in the session state, no
\* button can have been pressed.
Init ==
  /\ params = DefaultParams
  /\ session_state = InitialState(DefaultParams)
  /\ decision_boundary = "None"
  /\ pc = "update"
  /\ steps = 0
  /\ trial_params = <<>>

\* A run started by moving one slider: setup_params rebuilds self.params,
\* 'time' is in the session state, neither button is pressed.
ChangeSlider ==
  \E k \in SliderNames : \E v \in SliderValues[k] :
    /\ v # params[k]
    /\ params' = [params EXCEPT ![k] = v]
    /\ decision_boundary' = "None"
    /\ pc' = "update"
    /\ UNCHANGED <<session_state, steps, trial_params>>

\* A run started by the Start/Pause button (lines 139-140).
PressStartPause ==
  /\ session_state' = [session_state EXCEPT !.running = ~session_state.running]
  /\ decision_boundary' = "None"
  /\ pc' = "update"
  /\ UNCHANGED <<params, steps, trial_params>>

\* A run started by the Reset button (lines 142-148).
PressReset ==
  /\ session_state' = InitialState(params)
  /\ decision_boundary' = "None"
  /\ pc' = "update"
  /\ steps' = 0
  /\ trial_params' = <<>>
  /\ UNCHANGED params

\* update_simulation (lines 92-110), called at line 155, with the normal
\* draws of its batch; a trial is explored up to maxSteps steps.
UpdateSimulationWith(DrawSet, maxSteps) ==
  /\ pc = "update"
  /\ IF WillStep(session_state)
     THEN /\ Len(session_state.evidence_history) - 1 + BatchSize <= maxSteps
          /\ \E draws \in [1..BatchSize -> DrawSet] :
               LET s1 == Batch(session_state, params, draws, 1)
               IN /\ session_state' = s1
                  /\ decision_boundary' =
                       IF s1.decision_made
                       THEN DecisionBoundary(s1.evidence, params.threshold)
                       ELSE decision_boundary
                  /\ steps' =
                       steps + BatchSteps(session_state, params, draws, 1)
          /\ trial_params' = <<params>>
     ELSE UNCHANGED <<session_state, decision_boundary, steps, trial_params>>
  /\ pc' = "check"
  /\ UNCHANGED params

UpdateSimulation == UpdateSimulationWith(Draws, MaxSteps)

\* LoopCheck that breaks on a decision without clearing running.
LoopCheckKeepsRunning ==
  /\ pc = "check"
  /\ pc' = IF ~session_state.running \/ session_state.decision_made
           THEN "idle" ELSE "update"
  /\ UNCHANGED <<params, session_state, decision_boundary, steps,
                 trial_params>>

\* Lines 159-164: the break tests after update_simulation and the plot.
LoopCheck ==
  /\ pc = "check"
  /\ IF ~session_state.running
     THEN /\ pc' = "idle"
          /\ UNCHANGED session_state
     ELSE IF session_state.decision_made
          THEN /\ session_state' = [session_state EXCEPT !.running = FALSE]
               /\ pc' = "idle"
          ELSE /\ pc' = "update"
               /\ UNCHANGED session_state
  /\ UNCHANGED <<params, decision_boundary, steps, trial_params>>

Next ==
  \/ ChangeSlider
  \/ PressStartPause
  \/ PressReset
  \/ UpdateSimulation
  \/ LoopCheck

Spec == Init /\ [][Next]_vars

(***************************************************************************)
(* Zero-noise runs: every draw of the normal generator is 0 and no slider  *)
(* is moved.  The trial starts from the single-sample state of its         *)
(* parameters, which the program reaches by setting the sliders and        *)
(* pressing Reset.                                                         *)
(***************************************************************************)
ZeroDriftValues == {-1500, -1000, 1000, 1500}
ZeroBiasValues == {-1000, 0, 1000}

InitZero ==
  /\ params \in
       {[DefaultParams EXCEPT !.drift_rate = v, !.threshold = a, !.bias = z] :
          v \in ZeroDriftValues, a \in ThresholdValues, z \in ZeroBiasValues}
  /\ session_state = InitialState(params)
  /\ decision_boundary = "None"
  /\ pc = "update"
  /\ steps = 0
  /\ trial_params = <<>>

UpdateSimulationZero == UpdateSimulationWith({0}, MaxStepsZero)

NextZero ==
  \/ PressStartPause
  \/ UpdateSimulationZero
  \/ LoopCheck

SpecZero == InitZero /\ [][NextZero]_vars

(***************************************************************************)
(* Properties                                                              *)
(***************************************************************************)
Last(seq) == seq[Len(seq)]

\* threshold > 0, timeStep > 0, noiseScale >= 0, |startingBias| < threshold
ValidParams(p) ==
  /\ p.threshold > 0
  /\ p.dt > 0
  /\ p.noise_sd >= 0
  /\ Abs(p.bias) < p.threshold

\* A transition in which update_simulation appended at least one sample.
Stepped == steps' > steps

\* C1: once decision_made is true, no operation other than Reset changes
\* time, evidence, evidence_history or time_history.
TerminalTrial ==
  [][(session_state.decision_made /\ ~PressReset) =>
       /\ session_state'.evidence_history = session_state.evidence_history
       /\ session_state'.time_history = session_state.time_history
       /\ session_state'.time = session_state.time
       /\ session_state'.evidence = session_state.evidence]_vars

\* update_simulation has returned in a later run than the deciding one, on a
\* decided trial with running set (Start pressed on a decided trial).
TerminalTrialWitness ==
  /\ session_state.decision_made
  /\ session_state.running
  /\ pc = "check"
  /\ decision_boundary = "None"

\* C2: in every reachable state decision_made is true iff
\* abs(last element of evidence_history) >= the current threshold.
BoundaryCorrectness ==
  session_state.decision_made <=>
    (Abs(Last(session_state.evidence_history)) >= params.threshold)

\* C3: after n steps both histories have length n+1, time_history starts at
\* 0 and advances by dt, the last elements are the current time and evidence.
HistoryShape ==
  LET s == session_state
      n == Len(s.time_history)
  IN /\ n = steps + 1
     /\ Len(s.evidence_history) = steps + 1
     /\ s.time_history[1] = 0
     /\ \A i \in 1..(n - 1) : s.time_history[i + 1] - s.time_history[i] = dt
     /\ s.time_history[n] = s.time
     /\ s.evidence_history[n] = s.evidence

\* A trial that accumulated two full batches.
HistoryShapeWitness ==
  /\ steps = 2 * BatchSize
  /\ Len(session_state.evidence_history) = 2 * BatchSize + 1

\* C4: with zero noise and fixed parameters evidence = bias + drift * time;
\* for drift > 0 the run decides at the first step n with
\* bias + n*drift*dt >= threshold, at a time in [T, T+dt) for
\* T = (threshold - bias)/drift (symmetric for drift < 0 and the lower
\* boundary); drift 1.5, threshold 2.0, bias 0 decides at step 27, time
\* 1.35, Upper, and drift -1.5 at the same step, Lower.
ZeroNoiseRun ==
  LET s == session_state
      v == params.drift_rate
      a == params.threshold
      z == params.bias
      n == Len(s.evidence_history) - 1
      UpperAt(m) == z * Scale + m * v * dt >= a * Scale
      LowerAt(m) == z * Scale + m * v * dt <= (-a) * Scale
  IN /\ s.evidence * Scale = z * Scale + v * s.time
     /\ (v > 0 /\ n >= 1) =>
          /\ s.decision_made <=> UpperAt(n)
          /\ \A m \in 1..(n - 1) : ~UpperAt(m)
          /\ s.decision_made =>
               /\ v * s.time >= (a - z) * Scale
               /\ v * (s.time - dt) < (a - z) * Scale
     /\ (v < 0 /\ n >= 1) =>
          /\ s.decision_made <=> LowerAt(n)
          /\ \A m \in 1..(n - 1) : ~LowerAt(m)
          /\ s.decision_made =>
               /\ (-v) * s.time >= (a + z) * Scale
               /\ (-v) * (s.time - dt) < (a + z) * Scale
     /\ (a = 2000 /\ z = 0 /\ v \in {-1500, 1500}) =>
          /\ n <= 27
          /\ s.decision_made <=> n = 27
          /\ s.decision_made => s.time = 1350
          /\ decision_boundary # "None" =>
               decision_boundary = (IF v > 0 THEN "Upper" ELSE "Lower")

\* The statement of C4 for the parameter sets with |bias| < threshold.
ZeroNoiseRunValidParams == ValidParams(params) => ZeroNoiseRun

\* C5: at the step that sets decision_made the reported boundary is Upper
\* iff new_evidence >= threshold and Lower iff new_evidence <= -threshold,
\* exactly one of the two holds, and a step landing exactly on +threshold
\* sets decision_made and reports Upper.
DecisionSide ==
  [][LET e == session_state'.evidence
         a == params.threshold
     IN /\ (~session_state.decision_made /\ session_state'.decision_made) =>
             /\ decision_boundary' \in {"Upper", "Lower"}
             /\ decision_boundary' = "Upper" <=> e >= a
             /\ decision_boundary' = "Lower" <=> e <= -a
             /\ ~(e >= a /\ e <= -a)
        /\ (Stepped /\ e = a) =>
             /\ session_state'.decision_made
             /\ decision_boundary' = "Upper"]_vars

\* A deciding step has landed exactly on +threshold and reported Upper.
DecisionSideWitness ==
  /\ session_state.decision_made
  /\ session_state.evidence = params.threshold
  /\ decision_boundary = "Upper"
  /\ pc = "check"

\* C6: no step is executed with parameters violating threshold > 0,
\* dt > 0, noise_sd >= 0 or |bias| < threshold.
ValidatedParameters ==
  [][Stepped => ValidParams(params)]_vars

\* C7: every step of one trial is computed with the same parameters.
ImmutableParams ==
  [][(Stepped /\ steps > 0) => trial_params = <<params>>]_vars

\* C8: whenever the first step of a trial is taken the state is time = 0,
\* evidence = the bias of the parameters the step uses, single-sample
\* histories [bias] and [0], decision_made = false.
TrialStartState ==
  [][(Stepped /\ steps = 0) =>
       /\ session_state.time = 0
       /\ session_state.evidence = params.bias
       /\ session_state.evidence_history = <<params.bias>>
       /\ session_state.time_history = <<0>>
       /\ ~session_state.decision_made]_vars

\* C9: one call of update_simulation with running and not decision_made
\* appends 5 samples when no step of the batch reaches the threshold, and
\* otherwise k samples, k the first step of the batch that reaches it, and
\* sets decision_made; any other call changes no session state.
IncrementalBatch ==
  [][(pc = "update" /\ pc' = "check") =>
       IF session_state.running /\ ~session_state.decision_made
       THEN LET eh == session_state.evidence_history
                eh1 == session_state'.evidence_history
                th == session_state.time_history
                th1 == session_state'.time_history
                n == Len(eh)
                k == Len(eh1) - n
            IN /\ k \in 1..BatchSize
               /\ Len(th1) = Len(th) + k
               /\ SubSeq(eh1, 1, n) = eh
               /\ SubSeq(th1, 1, n) = th
               /\ \A i \in 1..(k - 1) : Abs(eh1[n + i]) < params.threshold
               /\ k < BatchSize => Abs(eh1[n + k]) >= params.threshold
               /\ session_state'.decision_made <=>
                    (Abs(eh1[n + k]) >= params.threshold)
               /\ session_state'.running
       ELSE session_state' = session_state]_vars

\* A batch that stopped before its fifth step, at the deciding step.
IncrementalBatchWitness ==
  /\ pc = "check"
  /\ decision_boundary # "None"
  /\ session_state.decision_made
  /\ steps % BatchSize # 0

\* C10: whenever the loop of main exits normally running is false.
LoopExitStopsRunning ==
  pc = "idle" => ~session_state.running

\* The loop has exited on a decided trial.
LoopExitWitness ==
  /\ pc = "idle"
  /\ session_state.decision_made
  /\ ~session_state.running

====
